---------------------------- MODULE Spec2Model ----------------------------
(***************************************************************************)
(* Model of src/app.py: the process-wide session table, the two agent      *)
(* tools (save_answer, get_session_data), the /ws/onboard relay coroutine  *)
(* (one instance per connection) and GET /session/{id}.                    *)
(*                                                                         *)
(* One action is one run of a coroutine between two awaits that matter:    *)
(* a receive_text() together with everything the handler does until it     *)
(* waits for the next inbound frame or the next stream event, or the       *)
(* handling of one stream event of the agent run.                          *)
(*                                                                         *)
(* Environment: the client hands a text frame to the handler when the      *)
(* handler calls receive_text(); a client that has gone away makes         *)
(* receive_text() raise WebSocketDisconnect and makes every later          *)
(* send_text() raise.  The agent runtime (agents.Runner) is external: it    *)
(* produces any sequence of stream events, calls the tools with any         *)
(* arguments, and may raise.                                               *)
(***************************************************************************)
EXTENDS Integers, Sequences, FiniteSets, TLC

(* ------------------------------ bounds --------------------------------- *)

\* inputs of a run: the frames the conversation loops read plus the stream
\* events (deltas, tool calls) the agent runtime produces
MaxInputs == 3

\* the same, in the runs where every connection is served
MaxManyInputs == 2

\* the same, in the runs that follow sessions beyond the end of a connection
MaxLifeInputs == 1

(* ----------------------------- universes ------------------------------- *)

\* the connections served by websocket_onboard (one coroutine each)
Conns == {"c1", "c2"}

\* the strings uuid4() may produce, and the ids the model may pass to a tool
SIDs == {"s1", "s2"}

\* field names and raw answers the model may pass to save_answer
Keys == {"name", "email"}
Vals == {"a", "b"}

\* text increments of a streamed response
Deltas == {"hi"}

None == "None"

(* ------------------------- inbound text frames ------------------------- *)

StartMsg == "{\"action\":\"start\",\"schema\":{}}"
StartNoSchemaMsg == "{\"action\":\"start\"}"
StopMsg == "{\"action\":\"stop\"}"
NumberMsg == "5"
BadJsonMsg == "{bad"

InitMsgs == {StartMsg, StartNoSchemaMsg, StopMsg, NumberMsg, BadJsonMsg, "exit"}
UserMsgs == {"exit", "Bye", "hello", BadJsonMsg}

EmptyDict == [k \in {} |-> None]

\* json.loads on an inbound frame: ok = FALSE stands for JSONDecodeError
json_loads(text) ==
    CASE text = StartMsg ->
           [ok |-> TRUE, is_dict |-> TRUE,
            doc |-> [k \in {"action", "schema"} |->
                       IF k = "action" THEN "start" ELSE "{}"]]
      [] text = StartNoSchemaMsg ->
           [ok |-> TRUE, is_dict |-> TRUE, doc |-> [k \in {"action"} |-> "start"]]
      [] text = StopMsg ->
           [ok |-> TRUE, is_dict |-> TRUE, doc |-> [k \in {"action"} |-> "stop"]]
      [] text = NumberMsg ->
           [ok |-> TRUE, is_dict |-> FALSE, doc |-> EmptyDict]
      [] OTHER ->
           [ok |-> FALSE, is_dict |-> FALSE, doc |-> EmptyDict]

\* dict.get(key, default)
dict_get(d, key, default) == IF key \in DOMAIN d THEN d[key] ELSE default

\* the comparison of line 140 without .lower()
lower_missing(text) == text

\* str.lower() on the inbound frames of the model
lower(text) ==
    CASE text = "Bye" -> "bye"
      [] OTHER -> text

\* the list the loop compares user_input.lower() with
TerminationPhrases == {"exit", "quit", "done", "bye"}

(* ------------------------------ state ---------------------------------- *)

VARIABLES
    sessions,       \* the module-level dict: session id -> record
    pc,             \* where each connection's coroutine stands
    session_id,     \* the coroutine's local session_id
    user_input,     \* the last frame the conversation loop read
    full_message,   \* the deltas accumulated in the current turn
    pending,        \* the tool of a tool_call_item whose output item is still to come
    tool_ret,       \* the output of the tool_call_output_item being handled
    out,            \* the frames send_text() delivered, in order
    gone,           \* the client has disconnected
    budget,         \* inputs (frames read, stream events) the run may still take
    http            \* the last response of GET /session/{id}

vars == <<sessions, pc, session_id, user_input, full_message,
          pending, tool_ret, out, gone, budget, http>>

NoRet == [json |-> FALSE, text |-> None, doc |-> EmptyDict]
NoHttp == [id |-> None, body |-> EmptyDict]

Frame(type, info) == [type |-> type, info |-> info]


(* ------------------------------ tools ---------------------------------- *)

SessionNotFound == "error:session_not_found"

\* a tool result that is a plain string
PlainText(s) == [json |-> FALSE, text |-> s, doc |-> EmptyDict]

\* json.dumps of a dict: a text that json.loads turns back into the dict
json_dumps(d) == [json |-> TRUE, text |-> "json", doc |-> d]

\* json.loads on a tool result: ok = FALSE stands for the exception it raises
json_loads_output(o) == [ok |-> o.json, doc |-> o.doc]

\* the record a start handshake inserts
NewSession(schema) ==
    [answers |-> EmptyDict, history |-> <<>>, schema |-> schema, turn_count |-> 0]

\* save_answer as it would be with sessions.setdefault(session_id, {...}) in place
\* of the lookup at lines 37-39
save_answer_creating(tbl, sid, key, raw_text) ==
    LET t == IF sid \in DOMAIN tbl THEN tbl ELSE (sid :> NewSession("{}")) @@ tbl IN
    [sessions |->
       [t EXCEPT ![sid] =
          [@ EXCEPT !["answers"] = (key :> raw_text) @@ @,
                    !["history"] = Append(@, [key |-> key, value |-> raw_text])]],
     ret |-> json_dumps([saved_key |-> key, status |-> "saved"])]

\* save_answer as it would be if a key already answered were kept
\* (s["answers"].setdefault(key, raw_text)) and logged once
save_answer_first_wins(tbl, sid, key, raw_text) ==
    IF sid \notin DOMAIN tbl
    THEN [sessions |-> tbl, ret |-> PlainText(SessionNotFound)]
    ELSE IF key \in DOMAIN tbl[sid]["answers"]
    THEN [sessions |-> tbl,
          ret |-> json_dumps([saved_key |-> key, status |-> "saved"])]
    ELSE [sessions |->
            [tbl EXCEPT ![sid] =
               [@ EXCEPT !["answers"] = (key :> raw_text) @@ @,
                         !["history"] = Append(@, [key |-> key, value |-> raw_text])]],
          ret |-> json_dumps([saved_key |-> key, status |-> "saved"])]

\* save_answer as it would be with s["history"].insert(0, ...) in place of the
\* append of line 41
save_answer_prepending(tbl, sid, key, raw_text) ==
    IF sid \notin DOMAIN tbl
    THEN [sessions |-> tbl, ret |-> PlainText(SessionNotFound)]
    ELSE [sessions |->
            [tbl EXCEPT ![sid] =
               [@ EXCEPT !["answers"] = (key :> raw_text) @@ @,
                         !["history"] = <<[key |-> key, value |-> raw_text]>> \o @]],
          ret |-> json_dumps([saved_key |-> key, status |-> "saved"])]

\* save_answer: the table afterwards and the string returned
save_answer(tbl, sid, key, raw_text) ==
    IF sid \notin DOMAIN tbl
    THEN [sessions |-> tbl, ret |-> PlainText(SessionNotFound)]
    ELSE [sessions |->
            [tbl EXCEPT ![sid] =
               [@ EXCEPT !["answers"] = (key :> raw_text) @@ @,
                         !["history"] = Append(@, [key |-> key, value |-> raw_text])]],
          ret |-> json_dumps([saved_key |-> key, status |-> "saved"])]

\* get_session_data as it would be if it handed the history over and emptied it
get_session_data_draining(tbl, sid) ==
    IF sid \notin DOMAIN tbl
    THEN [sessions |-> tbl, ret |-> PlainText(SessionNotFound)]
    ELSE [sessions |-> [tbl EXCEPT ![sid]["history"] = <<>>],
          ret |-> json_dumps([answers |-> tbl[sid]["answers"],
                              history |-> tbl[sid]["history"]])]

\* get_session_data as it would be with sessions.pop(session_id) in place of
\* sessions.get(session_id) at line 47
get_session_data_popping(tbl, sid) ==
    IF sid \notin DOMAIN tbl
    THEN [sessions |-> tbl, ret |-> PlainText(SessionNotFound)]
    ELSE [sessions |-> [s \in DOMAIN tbl \ {sid} |-> tbl[s]],
          ret |-> json_dumps([answers |-> tbl[sid]["answers"],
                              history |-> tbl[sid]["history"]])]

\* get_session_data: the table afterwards and the string returned
get_session_data(tbl, sid) ==
    IF sid \notin DOMAIN tbl
    THEN [sessions |-> tbl, ret |-> PlainText(SessionNotFound)]
    ELSE [sessions |-> tbl,
          ret |-> json_dumps([answers |-> tbl[sid]["answers"],
                              history |-> tbl[sid]["history"]])]

\* tools=[save_answer, get_session_data]
Tools == {"save_answer", "get_session_data"}

\* the calls the agent runtime may make
ToolCalls ==
    [tool : {"save_answer"}, sid : SIDs, key : Keys, value : Vals]
    \cup [tool : {"get_session_data"}, sid : SIDs, key : {None}, value : {None}]

RunTool(tbl, call) ==
    IF call.tool = "save_answer"
    THEN save_answer(tbl, call.sid, call.key, call.value)
    ELSE get_session_data(tbl, call.sid)

\* get_session as it would be if it reported len(s["history"]) as "turns"
get_session_counting_history(tbl, sid) ==
    IF sid \notin DOMAIN tbl
    THEN [error |-> "session not found"]
    ELSE [session_id |-> sid,
          answers |-> tbl[sid]["answers"],
          history |-> tbl[sid]["history"],
          turns |-> Len(tbl[sid]["history"])]

\* GET /session/{session_id}
get_session(tbl, sid) ==
    IF sid \notin DOMAIN tbl
    THEN [error |-> "session not found"]
    ELSE [session_id |-> sid,
          answers |-> tbl[sid]["answers"],
          history |-> tbl[sid]["history"],
          turns |-> tbl[sid]["turn_count"]]

(* --------------------------- initial state ------------------------------ *)

\* the state after start-up, every connection accepted (line 69)
Start(n) ==
    /\ sessions = [s \in {} |-> NewSession("{}")]
    /\ pc = [c \in Conns |-> "AwaitingStart"]
    /\ session_id = [c \in Conns |-> None]
    /\ user_input = [c \in Conns |-> None]
    /\ full_message = [c \in Conns |-> <<>>]
    /\ pending = [c \in Conns |-> None]
    /\ tool_ret = [c \in Conns |-> NoRet]
    /\ out = [c \in Conns |-> <<>>]
    /\ gone = [c \in Conns |-> FALSE]
    /\ budget = n
    /\ http = NoHttp

(* ------------------------- sending and closing -------------------------- *)

\* the log of connection c after ws.send_text(frame) returned
Sent(c, frame) == [out EXCEPT ![c] = Append(@, frame)]

\* the coroutine of connection c ends (return, break, or an exception that
\* leaves websocket_onboard): the connection is released
Closed(c) ==
    /\ pc' = [pc EXCEPT ![c] = "Closed"]
    /\ pending' = [pending EXCEPT ![c] = None]

\* the handler of connection c is not looking at a tool result
NoItem(c) == tool_ret' = [tool_ret EXCEPT ![c] = NoRet]

\* line 183 as it would be with continue in place of break
AfterSendFailure_continue == "Loop"

\* where a send that raises because the client is gone leaves the coroutine:
\* the loop breaks (lines 182-183), or the handler's own send (lines 130, 188)
\* raises out of websocket_onboard
AfterSendFailure == "Closed"

\* a send of connection c has raised
SendFailed(c) ==
    /\ pc' = [pc EXCEPT ![c] = AfterSendFailure]
    /\ pending' = [pending EXCEPT ![c] = None]
    /\ UNCHANGED out

InTurn(c) == pc[c] \in {"Greeting", "Turn"}

(* ------------------------------ handshake ------------------------------- *)

\* line 78 without the test of "action"
IsStart_any_dict(parsed) == parsed.is_dict

\* line 78
IsStart(parsed) == parsed.is_dict /\ dict_get(parsed.doc, "action", None) = "start"

\* lines 80-85 as they would be with the table rebuilt (sessions = {id: ...})
StartSession_rebuilding(tbl, id, parsed) ==
    (id :> NewSession(dict_get(parsed.doc, "schema", "{}")))

\* lines 79-85: the table with a new session under id
StartSession(tbl, id, parsed) ==
    (id :> NewSession(dict_get(parsed.doc, "schema", "{}"))) @@ tbl

\* str(uuid4()): an identifier no session has
uuid4(tbl) == SIDs \ DOMAIN tbl

\* lines 72-94 with a frame received; a start handshake goes on to line 103
ReceiveInit(c, text) ==
    /\ pc[c] = "AwaitingStart"
    /\ LET parsed == json_loads(text) IN
       IF ~parsed.ok
       THEN \* JSONDecodeError: lines 91-94
            /\ out' = Sent(c, Frame("error", "connection_failed"))
            /\ Closed(c)
            /\ UNCHANGED <<sessions, session_id>>
       ELSE IF IsStart(parsed)
       THEN \* lines 79-86, then Runner.run_streamed of the greeting
            \E id \in uuid4(sessions) :
              /\ session_id' = [session_id EXCEPT ![c] = id]
              /\ sessions' = StartSession(sessions, id, parsed)
              /\ out' = Sent(c, Frame("session_started", id))
              /\ pc' = [pc EXCEPT ![c] = "Greeting"]
              /\ UNCHANGED pending
       ELSE \* lines 88-90
            /\ out' = Sent(c, Frame("error", "invalid_start_payload"))
            /\ Closed(c)
            /\ UNCHANGED <<sessions, session_id>>
    /\ UNCHANGED <<user_input, full_message, tool_ret, gone, budget, http>>

\* receive_text() raises WebSocketDisconnect: line 92 sends on a connection
\* that is gone, which raises out of the handler
DisconnectInit(c) ==
    /\ pc[c] = "AwaitingStart"
    /\ gone' = [gone EXCEPT ![c] = TRUE]
    /\ Closed(c)
    /\ UNCHANGED <<sessions, session_id, user_input, full_message,
                   tool_ret, out, budget, http>>

(* ------------------------- one turn of the agent ------------------------ *)

\* raw_response_event: lines 107-113 and 156-162; a failing send is swallowed
StreamDelta(c, delta) ==
    /\ InTurn(c)
    /\ pending[c] = None
    /\ budget > 0
    /\ budget' = budget - 1
    /\ full_message' = [full_message EXCEPT ![c] = Append(@, delta)]
    /\ out' = IF gone[c] THEN out ELSE Sent(c, Frame("delta", delta))
    /\ NoItem(c)
    /\ UNCHANGED <<sessions, pc, session_id, user_input, pending,
                   gone, http>>

\* tool_call_item: lines 116-117 and 165-167; the send is not guarded, so on a
\* connection that is gone it raises out of the stream loop and the handler ends
\* (break at 183, or the send at 130/188 raising in its turn)
ToolCallItem(c, tool) ==
    /\ InTurn(c)
    /\ pending[c] = None
    /\ budget > 0
    /\ budget' = budget - 1
    /\ IF gone[c]
       THEN SendFailed(c)
       ELSE /\ out' = Sent(c, Frame("tool_call", tool))
            /\ pending' = [pending EXCEPT ![c] = tool]
            /\ UNCHANGED pc
    /\ NoItem(c)
    /\ UNCHANGED <<sessions, session_id, user_input, full_message,
                   gone, http>>

\* the frames lines 118-123 (greeting) and 168-176 (loop) send for a tool
\* result; greeting is TRUE in the greeting turn
OutputFrames(greeting, output) ==
    LET loaded == json_loads_output(output) IN
    IF ~loaded.ok
    THEN <<>>
    ELSE IF greeting
    THEN <<Frame("tool_output", "saved")>>
    ELSE IF "saved_key" \in DOMAIN loaded.doc
    THEN <<Frame("answer_saved", loaded.doc["saved_key"])>>
    ELSE <<Frame("tool_output", "success")>>

\* the runtime runs the tool and the stream yields its tool_call_output_item;
\* a failing send is swallowed
ToolOutputItem(c, call) ==
    /\ InTurn(c)
    /\ pending[c] # None
    /\ call.tool = pending[c]
    /\ LET r == RunTool(sessions, call) IN
         /\ sessions' = r.sessions
         /\ tool_ret' = [tool_ret EXCEPT ![c] = r.ret]
         /\ out' = IF gone[c] THEN out
                   ELSE [out EXCEPT ![c] = @ \o OutputFrames(pc[c] = "Greeting", r.ret)]
    /\ pending' = [pending EXCEPT ![c] = None]
    /\ UNCHANGED <<pc, session_id, user_input, full_message, gone,
                   budget, http>>

\* lines 126-127 and 179-180 without the increment
CompleteTurn_no_count(tbl, sid, message) ==
    [tbl EXCEPT ![sid] = ("last_llm_message" :> message) @@ @]

\* lines 127 and 180 as they would be with turn_count = 1 in place of += 1
CompleteTurn_restarting(tbl, sid, message) ==
    [tbl EXCEPT ![sid] =
       ("last_llm_message" :> message)
         @@ [@ EXCEPT !["turn_count"] = 1]]

\* lines 127 and 180 as they would be if they counted the turn in every session
\* (for s in sessions.values(): s["turn_count"] += 1)
CompleteTurn_every_session(tbl, sid, message) ==
    [s \in DOMAIN tbl |->
       IF s = sid
       THEN ("last_llm_message" :> message)
              @@ [tbl[s] EXCEPT !["turn_count"] = @ + 1]
       ELSE [tbl[s] EXCEPT !["turn_count"] = @ + 1]]

\* what the completed turn writes into the session: lines 126-127 and 179-180
CompleteTurn(tbl, sid, message) ==
    [tbl EXCEPT ![sid] =
       ("last_llm_message" :> message)
         @@ [@ EXCEPT !["turn_count"] = @ + 1]]

\* the stream is exhausted: lines 125-127 and 178-180
TurnComplete(c) ==
    /\ InTurn(c)
    /\ pending[c] = None
    /\ IF gone[c]
       THEN /\ SendFailed(c)
            /\ UNCHANGED sessions
       ELSE /\ out' = Sent(c, Frame("message_complete", None))
            /\ sessions' = CompleteTurn(sessions, session_id[c], full_message[c])
            /\ pc' = [pc EXCEPT ![c] = "Loop"]
            /\ UNCHANGED pending
    /\ NoItem(c)
    /\ UNCHANGED <<session_id, user_input, full_message, gone, budget, http>>

\* exceptions the agent runtime may raise out of stream_events()
RuntimeErrors == {"JSONDecodeError", "RuntimeError"}

\* lines 184-189 as they would be with break in place of continue
AfterTurnError_fail_fast(greeting) == "Closed"

\* lines 129-132 as they would be without the close and the return
AfterTurnError_lenient(greeting) == "Loop"

\* where the handler of an exception raised during a turn leaves the
\* coroutine: lines 129-132 for the greeting, 184-189 for the loop
AfterTurnError(greeting) == IF greeting THEN "Closed" ELSE "Loop"

\* the handlers without the JSONDecodeError clause of lines 184-186
TurnErrorFrame_one_clause(greeting, kind) == Frame("error", kind)

\* the frame that handler sends
TurnErrorFrame(greeting, kind) ==
    IF ~greeting /\ kind = "JSONDecodeError"
    THEN Frame("error", "invalid_input")
    ELSE Frame("error", kind)

\* the agent runtime raises during the turn
TurnRaises(c, kind) ==
    /\ InTurn(c)
    /\ IF gone[c]
       THEN SendFailed(c)
       ELSE /\ out' = Sent(c, TurnErrorFrame(pc[c] = "Greeting", kind))
            /\ pc' = [pc EXCEPT ![c] = AfterTurnError(pc[c] = "Greeting")]
            /\ pending' = [pending EXCEPT ![c] = None]
    /\ NoItem(c)
    /\ UNCHANGED <<sessions, session_id, user_input, full_message,
                   gone, budget, http>>

\* the client goes away while a turn is streaming
ClientDisconnect(c) ==
    /\ InTurn(c)
    /\ ~gone[c]
    /\ gone' = [gone EXCEPT ![c] = TRUE]
    /\ UNCHANGED <<sessions, pc, session_id, user_input, full_message,
                   pending, tool_ret, out, budget, http>>

(* --------------------------- conversation loop -------------------------- *)

\* line 140
IsTermination(text) == lower(text) \in TerminationPhrases

\* the loop as it would be if lines 152-180 ran as a task of their own
\* (asyncio.create_task) and the loop went back to line 137 at once
ReceiveUser_concurrent(c, text) ==
    /\ pc[c] \in {"Loop", "Turn"}
    /\ budget > 0
    /\ budget' = budget - 1
    /\ user_input' = [user_input EXCEPT ![c] = text]
    /\ IF IsTermination(text)
       THEN /\ out' = Sent(c, Frame("conversation_ended", None))
            /\ Closed(c)
            /\ UNCHANGED full_message
       ELSE /\ pc' = [pc EXCEPT ![c] = "Turn"]
            /\ full_message' = [full_message EXCEPT ![c] = <<>>]
            /\ UNCHANGED <<out, pending>>
    /\ UNCHANGED <<sessions, session_id, tool_ret, gone, http>>

\* lines 137-152: a frame is read; a termination phrase ends the loop, anything
\* else starts a turn
ReceiveUser(c, text) ==
    /\ pc[c] = "Loop"
    /\ budget > 0
    /\ budget' = budget - 1
    /\ user_input' = [user_input EXCEPT ![c] = text]
    /\ IF IsTermination(text)
       THEN /\ out' = Sent(c, Frame("conversation_ended", None))
            /\ Closed(c)
            /\ UNCHANGED full_message
       ELSE /\ pc' = [pc EXCEPT ![c] = "Turn"]
            /\ full_message' = [full_message EXCEPT ![c] = <<>>]
            /\ UNCHANGED <<out, pending>>
    /\ UNCHANGED <<sessions, session_id, tool_ret, gone, http>>

\* receive_text() raises WebSocketDisconnect: lines 182-183
DisconnectLoop(c) ==
    /\ pc[c] = "Loop"
    /\ gone' = [gone EXCEPT ![c] = TRUE]
    /\ Closed(c)
    /\ UNCHANGED <<sessions, session_id, user_input, full_message,
                   tool_ret, out, budget, http>>

(* ------------------------------- HTTP ----------------------------------- *)

\* GET /session/{session_id} is served
GetSession(sid) ==
    /\ http = NoHttp
    /\ http' = [id |-> sid, body |-> get_session(sessions, sid)]
    /\ UNCHANGED <<sessions, pc, session_id, user_input, full_message,
                   pending, tool_ret, out, gone, budget>>

\* the response has been delivered
HttpDone ==
    /\ http # NoHttp
    /\ http' = NoHttp
    /\ UNCHANGED <<sessions, pc, session_id, user_input, full_message,
                   pending, tool_ret, out, gone, budget>>

(* --------------------------- specifications ----------------------------- *)

Init == Start(MaxInputs)

InitMany == Start(MaxManyInputs)

InitLife == Start(MaxLifeInputs)

\* handshake and greeting turn of connection c
Opening(c) ==
    \/ \E text \in InitMsgs : ReceiveInit(c, text)
    \/ DisconnectInit(c)
    \/ \E delta \in Deltas : StreamDelta(c, delta)
    \/ \E tool \in Tools : ToolCallItem(c, tool)
    \/ \E call \in ToolCalls : ToolOutputItem(c, call)
    \/ TurnComplete(c)
    \/ \E kind \in RuntimeErrors : TurnRaises(c, kind)
    \/ ClientDisconnect(c)

\* the conversation loop of connection c reads a frame
Conversation(c) ==
    \/ \E text \in UserMsgs : ReceiveUser(c, text)
    \/ DisconnectLoop(c)

\* one connection, from the handshake to the end of its conversation
Next == Opening("c1") \/ Conversation("c1")

Spec == Init /\ [][Next]_vars

\* every connection, each up to the end of its greeting turn
NextMany == \E c \in Conns : Opening(c)

SpecMany == InitMany /\ [][NextMany]_vars

\* one connection up to the end of its greeting turn, and the HTTP endpoint
\* serving one request at a time
NextHttp ==
    \/ http = NoHttp /\ Opening("c1")
    \/ \E sid \in SIDs : GetSession(sid)
    \/ HttpDone

SpecHttp == Init /\ [][NextHttp]_vars

\* one connection from the handshake to the end of its conversation, another
\* one up to the end of its greeting turn, and the HTTP endpoint serving one
\* request at a time
NextLife ==
    \/ http = NoHttp /\ (Opening("c1") \/ Conversation("c1") \/ Opening("c2"))
    \/ \E sid \in SIDs : GetSession(sid)
    \/ HttpDone

SpecLife == InitLife /\ [][NextLife]_vars

(* ------------------------------ properties ------------------------------ *)

Last(seq) == seq[Len(seq)]

Count(seq, type) == Cardinality({i \in 1..Len(seq) : seq[i].type = type})

IsPrefix(a, b) == Len(a) <= Len(b) /\ SubSeq(b, 1, Len(a)) = a

SaveCalls == {call \in ToolCalls : call.tool = "save_answer"}

GetCalls == {call \in ToolCalls : call.tool = "get_session_data"}

\* C1: a save_answer call whose session_id is not a key of the session table
\* returns "error:session_not_found" and leaves the whole table as it was: no
\* session appears, and no session's answers, history or turn_count changes.
C1_SaveUnknownSession ==
    [][\A c \in Conns, call \in SaveCalls :
         (call.sid \notin DOMAIN sessions /\ ToolOutputItem(c, call))
           => /\ tool_ret'[c].json = FALSE
              /\ tool_ret'[c].text = "error:session_not_found"
              /\ DOMAIN sessions' = DOMAIN sessions
              /\ \A s \in DOMAIN sessions : sessions'[s] = sessions[s]]_vars

\* a save_answer on an unknown id has just returned the sentinel while another
\* session, with answers of its own, is in the table
C1_Witness ==
    \E c \in Conns :
      /\ tool_ret[c].text = "error:session_not_found"
      /\ Len(out[c]) > 0
      /\ Last(out[c]) = Frame("tool_call", "save_answer")
      /\ \E s \in DOMAIN sessions : Len(sessions[s]["history"]) > 0

\* C2: a save_answer call on an existing session sets answers[key] to the new
\* value, keeps the other answers, and appends exactly one {key, value} event to
\* the end of history; so after any two calls with the same key the history ends
\* with both events in call order and answers[key] is the value of the second.
C2_SaveUpsertsAndAppends ==
    /\ [][\A c \in Conns, call \in SaveCalls :
            (call.sid \in DOMAIN sessions /\ ToolOutputItem(c, call))
              => LET old == sessions[call.sid]
                     new == sessions'[call.sid]
                 IN /\ DOMAIN new["answers"] = DOMAIN old["answers"] \cup {call.key}
                    /\ new["answers"][call.key] = call.value
                    /\ \A k \in DOMAIN old["answers"] \ {call.key} :
                         new["answers"][k] = old["answers"][k]
                    /\ new["history"] =
                         old["history"] \o <<[key |-> call.key, value |-> call.value]>>
                    /\ tool_ret'[c].json
                    /\ tool_ret'[c].doc["saved_key"] = call.key]_vars
    /\ [](\A s \in DOMAIN sessions :
            LET h == sessions[s]["history"] IN
            Len(h) > 0 => /\ Last(h).key \in DOMAIN sessions[s]["answers"]
                          /\ sessions[s]["answers"][Last(h).key] = Last(h).value)

\* the same key was saved twice with different values: both events are in the
\* history, in call order, and the answer is the second value
C2_Witness ==
    \E s \in DOMAIN sessions :
      /\ sessions[s]["history"] =
           <<[key |-> "name", value |-> "a"], [key |-> "name", value |-> "b"]>>
      /\ sessions[s]["answers"]["name"] = "b"

\* the frames of UserMsgs that equal a termination phrase up to case
TerminationTokens == {"exit", "Bye"}

\* the frames of UserMsgs that do not
Utterances == {"hello", BadJsonMsg}

TurnCount(c) == sessions[session_id[c]]["turn_count"]

\* C3: when the conversation loop reads a frame that equals "exit", "quit",
\* "done" or "bye" up to case, it sends conversation_ended once, starts no turn
\* and ends; from then on the connection stays closed, nothing more is sent on
\* it, and its session's turn_count stays as it is.
C3_TerminationEndsConversation ==
    /\ [][\A c \in Conns, text \in TerminationTokens :
            ReceiveUser(c, text)
              => /\ pc'[c] = "Closed"
                 /\ out'[c] = Append(out[c], Frame("conversation_ended", None))
                 /\ sessions' = sessions]_vars
    /\ [][\A c \in Conns :
            pc[c] = "Closed"
              => /\ pc'[c] = "Closed"
                 /\ out'[c] = out[c]
                 /\ session_id[c] # None
                      => sessions'[session_id[c]]["turn_count"] = TurnCount(c)]_vars
    /\ [](\A c \in Conns :
            /\ Count(out[c], "conversation_ended") <= 1
            /\ (pc[c] = "Closed" /\ user_input[c] \in TerminationTokens)
                 => /\ Count(out[c], "conversation_ended") = 1
                    /\ Last(out[c]).type = "conversation_ended")

\* the loop read "Bye" and the connection is closed, conversation_ended last
C3_Witness ==
    \E c \in Conns :
      /\ pc[c] = "Closed"
      /\ user_input[c] = "Bye"
      /\ Last(out[c]).type = "conversation_ended"

\* the server has answered "exit" with conversation_ended, and "exit" was the
\* first frame its conversation loop read (no loop turn ended before it)
ExitAnsweredFirst(c) ==
    /\ user_input[c] = "exit"
    /\ out[c] # <<>>
    /\ Last(out[c]).type = "conversation_ended"
    /\ Count(out[c], "message_complete") <= 1
    /\ Count(out[c], "error") = 0

\* C4 as claimed: after a start handshake, an "exit" sent first is answered
\* with conversation_ended while no model turn has completed: turn_count is
\* still 0 and no message_complete was sent before conversation_ended.
C4_ExitBeforeAnyTurn ==
    \A c \in Conns :
      ExitAnsweredFirst(c)
        => /\ TurnCount(c) = 0
           /\ Count(out[c], "message_complete") = 0

\* C4: after a start handshake the server answers session_started with the
\* session id; an "exit" sent first is read only once the greeting turn has
\* completed, so when it is answered with conversation_ended and the connection
\* closes, message_complete is the frame right before it and turn_count is 1.
C4_ExitAfterGreeting ==
    \A c \in Conns :
      ExitAnsweredFirst(c)
        => /\ pc[c] = "Closed"
           /\ out[c][1] = Frame("session_started", session_id[c])
           /\ Len(out[c]) >= 3
           /\ out[c][Len(out[c]) - 1].type = "message_complete"
           /\ TurnCount(c) = 1

\* "exit" was the first frame read and has been answered
C4_Witness == \E c \in Conns : ExitAnsweredFirst(c)

\* C5 as claimed: an exception of the agent runtime during any turn closes the
\* connection.
C5_AnyTurnErrorCloses ==
    [][\A c \in Conns, kind \in RuntimeErrors :
         TurnRaises(c, kind) => pc'[c] = "Closed"]_vars

\* C5: an exception of the agent runtime during the greeting turn sends one
\* error frame and closes the connection; during a turn of the conversation
\* loop it sends one error frame and the loop goes on to read the next frame.
\* On a connection whose client is gone nothing is sent and the connection
\* closes. The session table is left as it was.
C5_TurnErrorClosesGreetingOnly ==
    [][\A c \in Conns, kind \in RuntimeErrors :
         TurnRaises(c, kind)
           => /\ sessions' = sessions
              /\ IF gone[c]
                 THEN pc'[c] = "Closed" /\ out'[c] = out[c]
                 ELSE /\ Len(out'[c]) = Len(out[c]) + 1
                      /\ IsPrefix(out[c], out'[c])
                      /\ Last(out'[c]).type = "error"
                      /\ pc[c] = "Greeting" => pc'[c] = "Closed"
                      /\ pc[c] = "Turn" => pc'[c] = "Loop"]_vars

\* a turn of the loop raised, an error was sent, and the loop has read the next
\* frame and started a turn for it
C5_Witness ==
    \E c \in Conns :
      /\ pc[c] = "Turn"
      /\ Count(out[c], "error") = 1
      /\ Last(out[c]).type = "error"

\* C6: a first frame that is not a start handshake (not JSON, JSON that is no
\* object, an object whose action is not "start") gets exactly one error frame;
\* the connection closes, never becomes active and sends nothing more, and the
\* session table is unchanged. A start handshake adds exactly one session and
\* session_started is the first frame sent.
C6_Handshake ==
    /\ [][\A c \in Conns, text \in InitMsgs :
            ReceiveInit(c, text)
              => IF text \in {StartMsg, StartNoSchemaMsg}
                 THEN /\ out'[c] = <<Frame("session_started", session_id'[c])>>
                      /\ session_id'[c] \in DOMAIN sessions' \ DOMAIN sessions
                      /\ Cardinality(DOMAIN sessions') = Cardinality(DOMAIN sessions) + 1
                      /\ pc'[c] = "Greeting"
                 ELSE /\ Len(out'[c]) = 1
                      /\ out'[c][1].type = "error"
                      /\ pc'[c] = "Closed"
                      /\ session_id'[c] = None
                      /\ sessions' = sessions]_vars
    /\ [][\A c \in Conns :
            pc[c] = "Closed" => pc'[c] = "Closed" /\ out'[c] = out[c]]_vars
    /\ [](\A c \in Conns :
            session_id[c] # None
              => out[c] # <<>> /\ out[c][1].type = "session_started")

\* one connection was refused for an object whose action is not "start" while
\* the other one completed its handshake and its greeting turn
C6_Witness ==
    \E c, d \in Conns :
      /\ pc[c] = "Closed"
      /\ out[c] = <<Frame("error", "invalid_start_payload")>>
      /\ pc[d] = "Loop"
      /\ Cardinality(DOMAIN sessions) = 1

\* C7: a start handshake takes an identifier that is not a key of the table and
\* inserts a record with no answers, no history and turn_count 0, leaving every
\* existing session as it was; so the table holds one session per completed
\* handshake, and no two connections share one.
C7_StartAddsFreshSession ==
    /\ [][\A c \in Conns, text \in InitMsgs :
            (ReceiveInit(c, text) /\ session_id'[c] # None)
              => LET id == session_id'[c] IN
                 /\ id \notin DOMAIN sessions
                 /\ DOMAIN sessions' = DOMAIN sessions \cup {id}
                 /\ DOMAIN sessions'[id]["answers"] = {}
                 /\ sessions'[id]["history"] = <<>>
                 /\ sessions'[id]["turn_count"] = 0
                 /\ \A s \in DOMAIN sessions : sessions'[s] = sessions[s]]_vars
    /\ [](/\ Cardinality(DOMAIN sessions)
               = Cardinality({c \in Conns : session_id[c] # None})
          /\ \A c, d \in Conns :
               (c # d /\ session_id[c] # None) => session_id[c] # session_id[d])

\* two handshakes have completed, the second one while the first session
\* already had an answer
C7_Witness ==
    /\ Cardinality(DOMAIN sessions) = 2
    /\ \E c \in Conns :
         /\ out[c] = <<Frame("session_started", session_id[c])>>
         /\ \E s \in DOMAIN sessions \ {session_id[c]} :
              Len(sessions[s]["history"]) > 0

\* C8 as claimed: in the conversation loop a frame that is not valid JSON is
\* answered with an error frame and the loop reads the next frame.
C8_MalformedReported ==
    [][\A c \in Conns :
         ReceiveUser(c, BadJsonMsg)
           => /\ Len(out'[c]) = Len(out[c]) + 1
              /\ Last(out'[c]).type = "error"
              /\ pc'[c] = "Loop"]_vars

\* C8: in the conversation loop a frame that is not valid JSON is taken like
\* any other utterance: a turn is started for it, nothing is sent for the frame
\* itself and the connection stays open. What the loop reports as
\* "invalid_input" is a JSONDecodeError raised during a turn, after which it
\* goes on to read the next frame.
C8_MalformedIsAnUtterance ==
    /\ [][\A c \in Conns, text \in Utterances :
            ReceiveUser(c, text)
              => /\ pc'[c] = "Turn"
                 /\ out'[c] = out[c]
                 /\ sessions' = sessions]_vars
    /\ [][\A c \in Conns :
            (pc[c] = "Turn" /\ ~gone[c] /\ TurnRaises(c, "JSONDecodeError"))
              => /\ out'[c] = Append(out[c], Frame("error", "invalid_input"))
                 /\ pc'[c] = "Loop"]_vars

\* the loop read a frame that is not valid JSON and is running a turn for it,
\* having reported no error
C8_Witness ==
    \E c \in Conns :
      /\ pc[c] = "Turn"
      /\ user_input[c] = BadJsonMsg
      /\ Count(out[c], "error") = 0

\* C9: once the client of a connection has gone away during a turn, the
\* coroutine can only stay in that turn or end: no further frame is read, no
\* further turn is started or completed. The disconnect and the end of the
\* coroutine leave the session table as it is, and whatever happens later keeps
\* every session, every history as a prefix of the later one, and every answer
\* unless a later save_answer replaces it.
C9_DisconnectAbortsKeepsAnswers ==
    [][\A c \in Conns :
         /\ gone[c]
              => /\ gone'[c]
                 /\ pc'[c] \in {pc[c], "Closed"}
                 /\ user_input'[c] = user_input[c]
                 /\ Count(out'[c], "message_complete") = Count(out[c], "message_complete")
                 /\ session_id[c] # None
                      => sessions'[session_id[c]]["turn_count"] = TurnCount(c)
         /\ (gone'[c] /\ (~gone[c] \/ pc'[c] # pc[c])) => sessions' = sessions
         /\ gone'[c]
              => \A s \in DOMAIN sessions :
                   /\ s \in DOMAIN sessions'
                   /\ IsPrefix(sessions[s]["history"], sessions'[s]["history"])
                   /\ \A k \in DOMAIN sessions[s]["answers"] :
                        /\ k \in DOMAIN sessions'[s]["answers"]
                        /\ \/ sessions'[s]["answers"][k] = sessions[s]["answers"][k]
                           \/ Last(sessions'[s]["history"]).key = k]_vars

\* a turn of the loop saved an answer, the client went away during that turn,
\* and the coroutine has ended with the answer still in the session
C9_Witness ==
    \E c \in Conns :
      /\ gone[c]
      /\ pc[c] = "Closed"
      /\ session_id[c] # None
      /\ out[c] # <<>>
      /\ Last(out[c]).type = "answer_saved"
      /\ Len(sessions[session_id[c]]["history"]) > 0
      /\ DOMAIN sessions[session_id[c]]["answers"] # {}

\* C10: get_session_data leaves the session table as it is; for an id in the
\* table it returns that session's current answers and history, for any other
\* id "error:session_not_found".
C10_GetSessionDataReadOnly ==
    [][\A c \in Conns, call \in GetCalls :
         ToolOutputItem(c, call)
           => /\ sessions' = sessions
              /\ IF call.sid \in DOMAIN sessions
                 THEN /\ tool_ret'[c].json
                      /\ DOMAIN tool_ret'[c].doc = {"answers", "history"}
                      /\ tool_ret'[c].doc["answers"] = sessions[call.sid]["answers"]
                      /\ tool_ret'[c].doc["history"] = sessions[call.sid]["history"]
                 ELSE /\ ~tool_ret'[c].json
                      /\ tool_ret'[c].text = "error:session_not_found"]_vars

\* get_session_data has just returned a session that has an answer
C10_Witness ==
    \E c \in Conns :
      /\ tool_ret[c].json
      /\ "history" \in DOMAIN tool_ret[c].doc
      /\ Len(tool_ret[c].doc["history"]) > 0
      /\ out[c] # <<>>
      /\ Last(out[c]) = Frame("tool_output", "saved")

\* C11: GET /session/{id} leaves the session table as it is. For an id in the
\* table it returns exactly session_id, answers, history and turns, where
\* answers and history are the session's current values and turns is its
\* current turn_count; for any other id it returns a document with the single
\* field error.
C11_GetSessionReadOnly ==
    [][\A sid \in SIDs :
         GetSession(sid)
           => /\ sessions' = sessions
              /\ http'.id = sid
              /\ IF sid \in DOMAIN sessions
                 THEN /\ DOMAIN http'.body = {"session_id", "answers", "history", "turns"}
                      /\ http'.body["session_id"] = sid
                      /\ http'.body["answers"] = sessions[sid]["answers"]
                      /\ http'.body["history"] = sessions[sid]["history"]
                      /\ http'.body["turns"] = sessions[sid]["turn_count"]
                 ELSE DOMAIN http'.body = {"error"}]_vars

\* the endpoint has just answered for a session whose greeting turn completed
\* without any answer saved
C11_Witness ==
    /\ http.id \in DOMAIN sessions
    /\ "turns" \in DOMAIN http.body
    /\ http.body["turns"] = 1
    /\ http.body["history"] = <<>>

\* the endpoint has just answered for an id that is not in the table while a
\* session is
C11_WitnessAbsent ==
    /\ http.id \in SIDs \ DOMAIN sessions
    /\ DOMAIN sessions # {}
    /\ DOMAIN http.body = {"error"}

\* C12: the turn_count of every session is a natural number, and for every
\* connection that has a session it equals the number of message_complete
\* frames sent on the connection. No step lowers a turn_count; a step changes
\* the turn_count of a connection's session exactly when it sends
\* message_complete on that connection, by one and with one frame; a turn that
\* ends because the runtime raised or the client is gone sends no
\* message_complete and leaves turn_count as it is.
C12_TurnCountCountsCompletions ==
    /\ [](/\ \A s \in DOMAIN sessions : sessions[s]["turn_count"] \in Nat
          /\ \A c \in Conns :
               session_id[c] # None
                 => TurnCount(c) = Count(out[c], "message_complete"))
    /\ [][\A s \in DOMAIN sessions :
            /\ s \in DOMAIN sessions'
            /\ sessions'[s]["turn_count"] >= sessions[s]["turn_count"]]_vars
    /\ [][\A c \in Conns :
            /\ (TurnComplete(c) /\ ~gone[c])
                 => /\ out'[c] = Append(out[c], Frame("message_complete", None))
                    /\ sessions'[session_id[c]]["turn_count"] = TurnCount(c) + 1
            /\ (InTurn(c) /\ pc'[c] # pc[c] /\ (gone[c] \/ Last(out'[c]).type = "error"))
                 => /\ sessions'[session_id[c]]["turn_count"] = TurnCount(c)
                    /\ Count(out'[c], "message_complete")
                         = Count(out[c], "message_complete")]_vars

\* two turns have completed and one, between them or before, ended in an error:
\* two message_complete frames, turn_count 2
C12_Witness ==
    \E c \in Conns :
      /\ session_id[c] # None
      /\ TurnCount(c) = 2
      /\ Count(out[c], "message_complete") = 2
      /\ Count(out[c], "error") = 1

\* the frames that end a turn, and the frames a turn sends before that
TurnEndFrames == {"message_complete", "error"}
TurnFrames == {"delta", "tool_call", "tool_output", "answer_saved"}

\* C13: a connection runs one turn at a time, and its loop reads a frame only
\* when no turn is running on it: the last frame sent is then the
\* message_complete or the error that ended the previous turn, and no tool call
\* is outstanding. A delta, tool_call, tool_output or answer_saved frame is sent
\* only while a turn is running, in a step that reads nothing. So whatever one
\* turn sends comes before the frame that ends it, and whatever the next turn
\* sends comes after.
C13_TurnsAreSerial ==
    /\ [](\A c \in Conns :
            /\ pc[c] = "Loop" => /\ Last(out[c]).type \in TurnEndFrames
                                 /\ pending[c] = None
            /\ pending[c] # None => /\ InTurn(c)
                                    /\ Last(out[c]).type = "tool_call")
    /\ [][\A c \in Conns, text \in UserMsgs :
            ReceiveUser(c, text)
              => /\ ~InTurn(c)
                 /\ pending[c] = None
                 /\ Last(out[c]).type \in TurnEndFrames]_vars
    /\ [][\A c \in Conns :
            (out'[c] # out[c] /\ Last(out'[c]).type \in TurnFrames)
              => /\ InTurn(c)
                 /\ pc'[c] = pc[c]
                 /\ user_input'[c] = user_input[c]
                 /\ IsPrefix(out[c], out'[c])
                 /\ Len(out'[c]) = Len(out[c]) + 1]_vars

\* the greeting turn and a turn of the loop have completed, and the turn after
\* them has sent tool_call and answer_saved
C13_Witness ==
    \E c \in Conns :
      /\ pc[c] = "Turn"
      /\ Count(out[c], "message_complete") = 2
      /\ Last(out[c]).type = "answer_saved"

\* the sessions other than a are in the table after the step as they were before
OthersUntouched(a) ==
    \A b \in DOMAIN sessions \ {a} :
      /\ b \in DOMAIN sessions'
      /\ sessions'[b] = sessions[b]

\* C14: whatever the connections do in between, a save_answer on session a
\* (called in a turn of any connection), a turn completed on the connection of
\* session a, and a start handshake that creates session a each leave every
\* other session of the table as it was: its answers, its history and its
\* turn_count. The first two add no session, the third adds only a.
C14_SessionsIndependent ==
    /\ [][\A c \in Conns, call \in SaveCalls :
            ToolOutputItem(c, call)
              => /\ OthersUntouched(call.sid)
                 /\ DOMAIN sessions' = DOMAIN sessions]_vars
    /\ [][\A c \in Conns :
            TurnComplete(c)
              => /\ OthersUntouched(session_id[c])
                 /\ DOMAIN sessions' = DOMAIN sessions]_vars
    /\ [][\A c \in Conns, text \in InitMsgs :
            ReceiveInit(c, text)
              => /\ OthersUntouched(session_id'[c])
                 /\ DOMAIN sessions' \subseteq DOMAIN sessions \cup {session_id'[c]}]_vars

\* two sessions: the turn of one connection has completed, and the session of
\* the other connection, whose turn has not, holds an answer
C14_Witness ==
    \E c, d \in Conns :
      /\ c # d
      /\ pc[c] = "Loop"
      /\ pc[d] = "Greeting"
      /\ TurnCount(c) = 1
      /\ sessions[session_id[c]]["history"] = <<>>
      /\ TurnCount(d) = 0
      /\ Len(sessions[session_id[d]]["history"]) > 0

\* the keys that occur in a history
HistoryKeys(h) == {h[i].key : i \in 1..Len(h)}

\* the value of the last event of history h whose key is k
LastValue(h, k) ==
    LET last == CHOOSE i \in 1..Len(h) :
                  /\ h[i].key = k
                  /\ \A j \in (i + 1)..Len(h) : h[j].key # k
    IN h[last].value

\* C15: no step removes a session, and the history of a session before a step
\* is a prefix of its history after the step: events are only added at the
\* end. In every reachable state the keys of a session's answers are the keys
\* that occur in its history, and answers[k] is the value of the last event of
\* the history whose key is k.
C15_HistoryExplainsAnswers ==
    /\ [][\A s \in DOMAIN sessions :
            /\ s \in DOMAIN sessions'
            /\ IsPrefix(sessions[s]["history"], sessions'[s]["history"])]_vars
    /\ [](\A s \in DOMAIN sessions :
            LET h == sessions[s]["history"]
                a == sessions[s]["answers"]
            IN /\ DOMAIN a = HistoryKeys(h)
               /\ \A k \in DOMAIN a : a[k] = LastValue(h, k))

\* a session whose history holds three events over two keys, one key saved
\* again with another value after the other key
C15_Witness ==
    \E s \in DOMAIN sessions :
      /\ sessions[s]["history"] =
           <<[key |-> "name", value |-> "a"],
             [key |-> "email", value |-> "a"],
             [key |-> "name", value |-> "b"]>>
      /\ sessions[s]["answers"]["name"] = "b"
      /\ sessions[s]["answers"]["email"] = "a"

\* the greeting turn of a connection comes first: it starts with the handshake
\* and only then; until it has ended no user message is read; the loop is
\* entered from it with one message_complete sent and turn_count 1; and a
\* connection that closed without a completed turn never read a user message
\* and has its session in the table with turn_count 0
GreetingFirst ==
    /\ [][\A c \in Conns :
            /\ pc'[c] = "Greeting" => pc[c] \in {"AwaitingStart", "Greeting"}
            /\ (pc[c] = "Greeting" /\ pc'[c] # "Greeting")
                 => /\ pc'[c] \in {"Loop", "Closed"}
                    /\ session_id'[c] = session_id[c]
                    /\ pc'[c] = "Loop"
                         => /\ Count(out'[c], "message_complete") = 1
                            /\ sessions'[session_id[c]]["turn_count"] = 1]_vars
    /\ [](\A c \in Conns :
            /\ pc[c] \in {"AwaitingStart", "Greeting"} => user_input[c] = None
            /\ pc[c] \in {"Loop", "Turn"} => Count(out[c], "message_complete") >= 1
            /\ (pc[c] = "Closed" /\ session_id[c] # None
                   /\ Count(out[c], "message_complete") = 0)
                 => /\ user_input[c] = None
                    /\ session_id[c] \in DOMAIN sessions
                    /\ TurnCount(c) = 0)

\* C16 as claimed: the greeting turn comes first, and whenever it ends
\* otherwise than by completing, the server sends one error frame and closes.
C16_GreetingErrorAlwaysReported ==
    /\ GreetingFirst
    /\ [][\A c \in Conns :
            (pc[c] = "Greeting" /\ pc'[c] = "Closed")
              => /\ Len(out'[c]) = Len(out[c]) + 1
                 /\ IsPrefix(out[c], out'[c])
                 /\ Last(out'[c]).type = "error"]_vars

\* C16: after a start handshake the server runs one greeting turn before it
\* reads any user message. If the turn completes, the connection enters the
\* conversation loop with turn_count 1. If it raises while the client is
\* connected, the server sends one error frame and closes; if the client has
\* gone away during the turn, the send of the next frame raises and the
\* connection ends with nothing more sent. In both cases no user message is
\* ever read and the session stays in the table with turn_count 0.
C16_GreetingTurnFirst ==
    /\ GreetingFirst
    /\ [][\A c \in Conns :
            (pc[c] = "Greeting" /\ pc'[c] = "Closed")
              => IF gone[c]
                 THEN out'[c] = out[c]
                 ELSE /\ Len(out'[c]) = Len(out[c]) + 1
                      /\ IsPrefix(out[c], out'[c])
                      /\ Last(out'[c]).type = "error"]_vars

\* the greeting turn raised after it had saved an answer: one error frame, the
\* connection closed, nothing read, the session and its answer in the table
C16_Witness ==
    \E c \in Conns :
      /\ pc[c] = "Closed"
      /\ session_id[c] \in DOMAIN sessions
      /\ ~gone[c]
      /\ Count(out[c], "error") = 1
      /\ Last(out[c]).type = "error"
      /\ Count(out[c], "message_complete") = 0
      /\ user_input[c] = None
      /\ TurnCount(c) = 0
      /\ Len(sessions[session_id[c]]["history"]) > 0

\* the client went away during the greeting turn and the connection has ended:
\* no error frame, nothing read, the session in the table
C16_WitnessGone ==
    \E c \in Conns :
      /\ pc[c] = "Closed"
      /\ session_id[c] \in DOMAIN sessions
      /\ gone[c]
      /\ Count(out[c], "error") = 0
      /\ Count(out[c], "message_complete") = 0
      /\ TurnCount(c) = 0

\* C17: no step removes a session from the table, so the session of a
\* connection is in the table in every state from its handshake on, whether
\* the connection is open or has closed through a termination phrase, an error
\* or a disconnect. On an id in the table save_answer returns the saved key
\* and GET /session/{id} returns the session, never the not-found answers.
C17_SessionsAreNeverRemoved ==
    /\ [][\A s \in DOMAIN sessions : s \in DOMAIN sessions']_vars
    /\ [](\A c \in Conns : session_id[c] # None => session_id[c] \in DOMAIN sessions)
    /\ [][\A c \in Conns : session_id[c] # None => session_id'[c] = session_id[c]]_vars
    /\ [][\A c \in Conns :
            pending[c] = "save_answer"
              => \A call \in SaveCalls :
                   (call.sid \in DOMAIN sessions /\ ToolOutputItem(c, call))
                     => /\ tool_ret'[c].json
                        /\ tool_ret'[c].doc["saved_key"] = call.key
                        /\ sessions'[call.sid]["answers"][call.key] = call.value]_vars
    /\ [][http = NoHttp
            => \A sid \in DOMAIN sessions :
                 GetSession(sid)
                   => /\ "error" \notin DOMAIN http'.body
                      /\ http'.body["session_id"] = sid]_vars

\* the three ways a connection that has a session reaches Closed
ClosedByPhrase(c) ==
    /\ pc[c] = "Closed"
    /\ session_id[c] # None
    /\ Last(out[c]).type = "conversation_ended"

ClosedByError(c) ==
    /\ pc[c] = "Closed"
    /\ session_id[c] # None
    /\ ~gone[c]
    /\ Last(out[c]).type = "error"

ClosedByDisconnect(c) ==
    /\ pc[c] = "Closed"
    /\ session_id[c] # None
    /\ gone[c]

\* the endpoint has just returned the session of a connection that closed
\* after an error of its greeting turn, with an answer that a turn of the other
\* connection saved into it
C17_Witness ==
    \E c, d \in Conns :
      /\ c # d
      /\ ClosedByError(c)
      /\ http.id = session_id[c]
      /\ "history" \in DOMAIN http.body
      /\ Len(http.body["history"]) > 0
      /\ Count(out[c], "tool_call") = 0
      /\ Count(out[d], "tool_call") = 1
      /\ tool_ret[d].json

\* the endpoint has just returned the session of a connection that closed
\* through a termination phrase
C17_WitnessPhrase ==
    \E c \in Conns :
      /\ ClosedByPhrase(c)
      /\ http.id = session_id[c]
      /\ "turns" \in DOMAIN http.body
      /\ http.body["turns"] = 1

\* the same after a disconnect
C17_WitnessDisconnect ==
    \E c \in Conns :
      /\ ClosedByDisconnect(c)
      /\ http.id = session_id[c]
      /\ "turns" \in DOMAIN http.body

=============================================================================
